---- MODULE Spec2Model ----
(***************************************************************************)
(* publish.li: the HTTP handlers of cmd/publish (apiPut, apiPost, apiGet,  *)
(* servePage) over the two-bucket page store, and the handle validators.   *)
(*                                                                         *)
(* Strings the code inspects character by character (titles, handles,      *)
(* names, ids) are sequences of one-character strings; strings it only     *)
(* copies (content, author) are opaque strings.                            *)
(* Each handler is split at its store transactions: the part up to the     *)
(* call of storePutPage is one step, the storePutPage call and the         *)
(* response are the next, so that requests served by different goroutines  *)
(* interleave at transaction boundaries.                                   *)
(***************************************************************************)
EXTENDS Integers, Sequences, FiniteSets, TLC

VARIABLES byName, byId, clock, rnd, nreq, pc, req, page, last, created,
          handle, verdict, puts, fetched

vars == <<byName, byId, clock, rnd, nreq, pc, req, page, last, created,
          handle, verdict, puts, fetched>>

\* ---------------------------------------------------------------- bounds

\* Requests accepted by the dispatcher in one behaviour.
MaxRequests == 3

\* Longest handle handed to the validators in SpecHandles.
MaxHandleLen == 3

\* Goroutines serving requests at the same time.
Procs == {"g1", "g2"}

\* ------------------------------------------------------------ characters

Letters == {"a", "b", "c", "d", "e", "f", "g", "h", "i", "j", "k", "l", "m",
            "n", "o", "p", "q", "r", "s", "t", "u", "v", "w", "x", "y", "z"}

Digits == {"0", "1", "2", "3", "4", "5", "6", "7", "8", "9"}

\* strings.ToLower on one character (ASCII).
ToLowerChar(c) ==
    CASE c = "A" -> "a" [] c = "B" -> "b" [] c = "C" -> "c" [] c = "J" -> "j"
      [] c = "Z" -> "z" [] OTHER -> c

ToLower(s) == [i \in 1..Len(s) |-> ToLowerChar(s[i])]

RECURSIVE TrimLeft(_, _)
TrimLeft(s, cutset) ==
    IF s # <<>> /\ Head(s) \in cutset THEN TrimLeft(Tail(s), cutset) ELSE s

RECURSIVE TrimRight(_, _)
TrimRight(s, cutset) ==
    IF s # <<>> /\ s[Len(s)] \in cutset
    THEN TrimRight(SubSeq(s, 1, Len(s) - 1), cutset)
    ELSE s

\* strings.Trim: all leading and trailing characters of the cutset removed.
Trim(s, cutset) == TrimRight(TrimLeft(s, cutset), cutset)

\* ------------------------------------------------------------ validators

chars == Letters

twitterChars == chars \cup {"_"}

facebookChars == chars \cup {"."}

githubChars == chars \cup {"-"}

instagramChars == chars

isValidTwitterHandle(h) == Trim(ToLower(h), twitterChars) = <<>>

isValidFacebookHandle(h) == Trim(ToLower(h), facebookChars) = <<>>

isValidGitHubHandle(h) == Trim(ToLower(h), githubChars) = <<>>

isValidInstagramHandle(h) == Trim(ToLower(h), instagramChars) = <<>>

\* ------------------------------------------------- external collaborators

\* slugify.Slugify: lower-cases, keeps letters and digits, turns every run
\* of other characters into one dash and drops leading and trailing dashes.
SlugChar(c) ==
    IF ToLowerChar(c) \in Letters \cup Digits THEN ToLowerChar(c) ELSE "-"

RECURSIVE Collapse(_)
Collapse(s) ==
    IF Len(s) < 2 THEN s
    ELSE IF s[1] = "-" /\ s[2] = "-" THEN Collapse(Tail(s))
    ELSE <<s[1]>> \o Collapse(Tail(s))

Slugify(title) ==
    Trim(Collapse([i \in 1..Len(title) |-> SlugChar(title[i])]), {"-"})

\* url.ParseRequestURI followed by URL.String: an absolute URI parses and
\* comes back with its scheme in lower case; a bare word does not parse.
ParseRequestURI(website) ==
    CASE website = "http://a.io" -> [ok |-> TRUE, str |-> "http://a.io"]
      [] website = "HTTP://a.io" -> [ok |-> TRUE, str |-> "http://a.io"]
      [] OTHER -> [ok |-> FALSE, str |-> ""]

\* blackfriday.MarkdownCommon: total and pure; the markup embeds the source.
MarkdownCommon(content) == <<"<p>", content, "</p>">>

\* randStr(n): n characters; the k-th call of a run returns the k-th token,
\* so no two calls return the same string.
TokenChars == <<"p", "q">>

RECURSIVE Digit2(_, _)
Digit2(k, i) == IF i = 0 THEN k % 2 ELSE Digit2(k \div 2, i - 1)

randStr(k, n) == [i \in 1..n |-> TokenChars[Digit2(k, n - i) + 1]]

\* Length of a page id and of the random suffix of a page name.
IdLen == 16

SuffixLen == 8

\* ------------------------------------------------------------------ pages

Nil == [nil |-> TRUE]

\* The form values of a request.
Form(title, content, author, website, twitter, github, facebook, instagram) ==
    [title |-> title, content |-> content, author |-> author,
     website |-> website, twitter |-> twitter, github |-> github,
     facebook |-> facebook, instagram |-> instagram]

FormA == Form(<<"A">>, "c1", "ann", "", <<"J", "_">>, <<>>, <<>>, <<>>)

FormB == Form(<<"a", "!", "b">>, "c2", "bob", "HTTP://a.io", <<>>,
              <<"a", "-">>, <<"a", ".">>, <<"Z">>)

ValidForms == {FormA, FormB}

InvalidForms ==
    { [FormA EXCEPT !.title = <<>>],
      [FormB EXCEPT !.title = <<"!", "!">>, !.twitter = <<"a", " ">>],
      [FormA EXCEPT !.website = "a.io", !.github = <<"a", ".">>],
      [FormA EXCEPT !.twitter = <<"a", "1">>],
      [FormA EXCEPT !.twitter = <<"a", " ">>, !.facebook = <<"a", "-">>],
      [FormB EXCEPT !.github = <<"a", ".">>, !.instagram = <<"a", "_">>],
      [FormB EXCEPT !.facebook = <<"a", "-">>],
      [FormB EXCEPT !.instagram = <<"a", "_">>],
      [FormA EXCEPT !.twitter = <<"a", "1">>, !.github = <<"a", ".">>,
                    !.instagram = <<"a", "_">>] }

Forms == ValidForms \cup InvalidForms

\* The record serialization of the store: the fields in declaration order.
Serialize(pg) ==
    <<pg.Id, pg.Name, pg.Title, pg.Author, pg.Website, pg.Content, pg.Twitter,
      pg.Facebook, pg.GitHub, pg.Instagram, pg.Inserted, pg.Updated, pg.Html>>

Deserialize(v) ==
    [Id |-> v[1], Name |-> v[2], Title |-> v[3], Author |-> v[4],
     Website |-> v[5], Content |-> v[6], Twitter |-> v[7], Facebook |-> v[8],
     GitHub |-> v[9], Instagram |-> v[10], Inserted |-> v[11],
     Updated |-> v[12], Html |-> v[13]]

\* ------------------------------------------------------------------ store

Assign(f, k, v) == [x \in DOMAIN f \cup {k} |-> IF x = k THEN v ELSE f[x]]

\* storePutPage: one write transaction that sets the by-name record and the
\* by-id pointer; a serialization or commit fault leaves both buckets alone.
storePutPage(bn, bi, pg, fault) ==
    IF fault
    THEN [err |-> TRUE, byName |-> bn, byId |-> bi]
    ELSE [err |-> FALSE,
          byName |-> Assign(bn, pg.Name, Serialize(pg)),
          byId |-> Assign(bi, pg.Id, pg.Name)]

\* storeGetPage: nil, nil when the name has no record.
storeGetPage(bn, name) ==
    IF name \in DOMAIN bn
    THEN [page |-> Deserialize(bn[name]), err |-> FALSE]
    ELSE [page |-> Nil, err |-> FALSE]

\* storeGetPageUsingId: id -> name -> record; nil, nil when the id is
\* unknown, an error when the pointer leads to no record.
storeGetPageUsingId(bn, bi, id) ==
    IF id \notin DOMAIN bi THEN [page |-> Nil, err |-> FALSE]
    ELSE IF bi[id] \notin DOMAIN bn THEN [page |-> Nil, err |-> TRUE]
    ELSE storeGetPage(bn, bi[id])

\* The byte order of the characters a name is made of.
ByteOrder ==
    <<"-", "0", "1", "2", "3", "4", "5", "6", "7", "8", "9",
      "a", "b", "c", "d", "e", "f", "g", "h", "i", "j", "k", "l", "m",
      "n", "o", "p", "q", "r", "s", "t", "u", "v", "w", "x", "y", "z">>

ByteOf(c) == CHOOSE i \in 1..Len(ByteOrder) : ByteOrder[i] = c

\* bytes.Compare(a, b) < 0: the order of the keys of a bucket.
RECURSIVE KeyLess(_, _)
KeyLess(a, b) ==
    IF b = <<>> THEN FALSE
    ELSE IF a = <<>> THEN TRUE
    ELSE IF Head(a) # Head(b) THEN ByteOf(Head(a)) < ByteOf(Head(b))
    ELSE KeyLess(Tail(a), Tail(b))

RECURSIVE Ascending(_)
Ascending(keys) ==
    IF keys = {} THEN <<>>
    ELSE LET k == CHOOSE x \in keys : \A y \in keys \ {x} : KeyLess(x, y)
         IN  <<k>> \o Ascending(keys \ {k})

\* storeIteratePages: one read transaction that hands every key and value
\* of the by-name bucket to the visitor, in key order.
storeIteratePages(bn) ==
    LET keys == Ascending(DOMAIN bn)
    IN  [i \in 1..Len(keys) |-> <<keys[i], bn[keys[i]]>>]

\* -------------------------------------------------------------- responses

SendError(msg) == [kind |-> "json", ok |-> FALSE, msg |-> msg, payload |-> Nil]

SendJson(msg, payload) ==
    [kind |-> "json", ok |-> TRUE, msg |-> msg, payload |-> payload]

HttpError == [kind |-> "500", ok |-> FALSE, msg |-> "store error", payload |-> Nil]

NotFound ==
    [kind |-> "404", ok |-> FALSE, msg |-> "404 page not found", payload |-> Nil]

RenderPage(pg) ==
    [kind |-> "html", ok |-> TRUE, msg |-> "page.html", payload |-> pg]

NoResp == [kind |-> "none", ok |-> FALSE, msg |-> "", payload |-> Nil]

\* ------------------------------------------------------------- validation

\* Variant: the title check is missing from the validation block.
MutValidateNoTitle(f) ==
    LET slug == Slugify(f.title)
        u == ParseRequestURI(f.website)
        website == IF f.website # "" /\ u.ok THEN u.str ELSE f.website
        err ==
            IF f.website # "" /\ ~u.ok THEN "Invalid website URL"
            ELSE IF f.twitter # <<>> /\ ~isValidTwitterHandle(f.twitter)
            THEN "Invalid Twitter Handle. Only letters, numbers, and underscore allowed."
            ELSE IF f.github # <<>> /\ ~isValidGitHubHandle(f.github)
            THEN "Invalid GitHub Handle. Only letters, numbers, and dash allowed."
            ELSE IF f.facebook # <<>> /\ ~isValidFacebookHandle(f.facebook)
            THEN "Invalid Facebook Handle. Only letters, numbers, and dot allowed."
            ELSE IF f.instagram # <<>> /\ ~isValidInstagramHandle(f.instagram)
            THEN "Invalid Instagram Handle. Only letters and numbers allowed."
            ELSE ""
    IN  [err |-> err, slug |-> slug, website |-> website]

\* Variant: the checks of the validation block run in the reverse order.
MutValidateReversed(f) ==
    LET slug == Slugify(f.title)
        u == ParseRequestURI(f.website)
        website == IF f.website # "" /\ u.ok THEN u.str ELSE f.website
        err ==
            IF f.instagram # <<>> /\ ~isValidInstagramHandle(f.instagram)
            THEN "Invalid Instagram Handle. Only letters and numbers allowed."
            ELSE IF f.facebook # <<>> /\ ~isValidFacebookHandle(f.facebook)
            THEN "Invalid Facebook Handle. Only letters, numbers, and dot allowed."
            ELSE IF f.github # <<>> /\ ~isValidGitHubHandle(f.github)
            THEN "Invalid GitHub Handle. Only letters, numbers, and dash allowed."
            ELSE IF f.twitter # <<>> /\ ~isValidTwitterHandle(f.twitter)
            THEN "Invalid Twitter Handle. Only letters, numbers, and underscore allowed."
            ELSE IF f.website # "" /\ ~u.ok THEN "Invalid website URL"
            ELSE IF slug = <<>> THEN "Provide a title"
            ELSE ""
    IN  [err |-> err, slug |-> slug, website |-> website]

\* The validation block of apiPut and of apiPost: the message of the first
\* failing check ("" when all pass), the slug and the normalized website.
Validate(f) ==
    LET slug == Slugify(f.title)
        u == ParseRequestURI(f.website)
        website == IF f.website # "" /\ u.ok THEN u.str ELSE f.website
        err ==
            IF slug = <<>> THEN "Provide a title"
            ELSE IF f.website # "" /\ ~u.ok THEN "Invalid website URL"
            ELSE IF f.twitter # <<>> /\ ~isValidTwitterHandle(f.twitter)
            THEN "Invalid Twitter Handle. Only letters, numbers, and underscore allowed."
            ELSE IF f.github # <<>> /\ ~isValidGitHubHandle(f.github)
            THEN "Invalid GitHub Handle. Only letters, numbers, and dash allowed."
            ELSE IF f.facebook # <<>> /\ ~isValidFacebookHandle(f.facebook)
            THEN "Invalid Facebook Handle. Only letters, numbers, and dot allowed."
            ELSE IF f.instagram # <<>> /\ ~isValidInstagramHandle(f.instagram)
            THEN "Invalid Instagram Handle. Only letters and numbers allowed."
            ELSE ""
    IN  [err |-> err, slug |-> slug, website |-> website]

\* ----------------------------------------------------------------- apiPut

\* Variant: the name is the slug alone, without the random suffix.
MutNewPageNoSuffix(f, v, now, id, suffix) ==
    [Id |-> id, Name |-> v.slug, Title |-> f.title,
     Author |-> f.author, Website |-> v.website, Content |-> f.content,
     Twitter |-> f.twitter, Facebook |-> f.facebook, GitHub |-> f.github,
     Instagram |-> f.instagram, Inserted |-> now, Updated |-> now,
     Html |-> MarkdownCommon(f.content)]

\* The page apiPut builds once validation has passed.
NewPage(f, v, now, id, suffix) ==
    [Id |-> id, Name |-> v.slug \o <<"-">> \o suffix, Title |-> f.title,
     Author |-> f.author, Website |-> v.website, Content |-> f.content,
     Twitter |-> f.twitter, Facebook |-> f.facebook, GitHub |-> f.github,
     Instagram |-> f.instagram, Inserted |-> now, Updated |-> now,
     Html |-> MarkdownCommon(f.content)]

\* Variant: the response names the page by its title.
MutPayloadTitle(pg) == [id |-> pg.Id, name |-> pg.Title]

\* The payload of the "Saved" response of apiPut and apiPost.
SavedPayload(pg) == [id |-> pg.Id, name |-> pg.Name]

\* ---------------------------------------------------------------- apiPost

\* Variant: the id of the record is not compared with the id supplied.
MutNoPermissionCheck(existing, id, f) ==
    IF existing.err THEN "Internal Error. Please try again later."
    ELSE IF existing.page = Nil THEN "This page name does not exist."
    ELSE Validate(f).err

\* Variant: the form is validated before the record is looked at.
MutValidateFirst(existing, id, f) ==
    IF Validate(f).err # "" THEN Validate(f).err
    ELSE IF existing.err THEN "Internal Error. Please try again later."
    ELSE IF existing.page = Nil THEN "This page name does not exist."
    ELSE IF existing.page.Id # id THEN "Permission denied."
    ELSE ""

\* apiPost up to the end of validation: the message of the error it sends,
\* "" when the request goes on to the update.
apiPostError(existing, id, f) ==
    IF existing.err THEN "Internal Error. Please try again later."
    ELSE IF existing.page = Nil THEN "This page name does not exist."
    ELSE IF existing.page.Id # id THEN "Permission denied."
    ELSE Validate(f).err

\* Variant: the update stamps Inserted as well as Updated.
MutUpdatedPageRestamp(existPage, f, v, now) ==
    [existPage EXCEPT !.Title = f.title, !.Content = f.content,
                      !.Author = f.author, !.Website = v.website,
                      !.Twitter = f.twitter, !.Facebook = f.facebook,
                      !.GitHub = f.github, !.Instagram = f.instagram,
                      !.Inserted = now,
                      !.Updated = now, !.Html = MarkdownCommon(f.content)]

\* Variant: the update renames the page after its new title.
MutUpdatedPageRename(existPage, f, v, now) ==
    [existPage EXCEPT !.Name = v.slug \o <<"-">> \o
                          SubSeq(existPage.Name,
                                 Len(existPage.Name) - SuffixLen + 1,
                                 Len(existPage.Name)),
                      !.Title = f.title, !.Content = f.content,
                      !.Author = f.author, !.Website = v.website,
                      !.Twitter = f.twitter, !.Facebook = f.facebook,
                      !.GitHub = f.github, !.Instagram = f.instagram,
                      !.Updated = now, !.Html = MarkdownCommon(f.content)]

\* Variant: the update keeps the markup rendered for the old content.
MutUpdatedPageStaleHtml(existPage, f, v, now) ==
    [existPage EXCEPT !.Title = f.title, !.Content = f.content,
                      !.Author = f.author, !.Website = v.website,
                      !.Twitter = f.twitter, !.Facebook = f.facebook,
                      !.GitHub = f.github, !.Instagram = f.instagram,
                      !.Updated = now]

\* Variant: the update does not stamp Updated.
MutUpdatedPageNoStamp(existPage, f, v, now) ==
    [existPage EXCEPT !.Title = f.title, !.Content = f.content,
                      !.Author = f.author, !.Website = v.website,
                      !.Twitter = f.twitter, !.Facebook = f.facebook,
                      !.GitHub = f.github, !.Instagram = f.instagram,
                      !.Html = MarkdownCommon(f.content)]

\* Variant: the update leaves the author of the loaded record in place.
MutUpdatedPageKeepAuthor(existPage, f, v, now) ==
    [existPage EXCEPT !.Title = f.title, !.Content = f.content,
                      !.Website = v.website,
                      !.Twitter = f.twitter, !.Facebook = f.facebook,
                      !.GitHub = f.github, !.Instagram = f.instagram,
                      !.Updated = now, !.Html = MarkdownCommon(f.content)]

\* The fields apiPost overwrites in the record it loaded.
UpdatedPage(existPage, f, v, now) ==
    [existPage EXCEPT !.Title = f.title, !.Content = f.content,
                      !.Author = f.author, !.Website = v.website,
                      !.Twitter = f.twitter, !.Facebook = f.facebook,
                      !.GitHub = f.github, !.Instagram = f.instagram,
                      !.Updated = now, !.Html = MarkdownCommon(f.content)]

\* ------------------------------------------------------------------ state

Request(op, id, name, f) == [op |-> op, id |-> id, name |-> name, form |-> f]

NoForm == Form(<<>>, "", "", "", <<>>, <<>>, <<>>, <<>>)

NoReq == Request("none", <<>>, <<>>, NoForm)

\* An id and a name no page ever gets (randStr never returns them).
UnknownId == [i \in 1..IdLen |-> "z"]

UnknownName == <<"n", "o", "-">> \o [i \in 1..SuffixLen |-> "z"]

Handles == UNION {[1..n -> {"a", "J", "1", "_", "-", ".", " "}] : n \in 0..MaxHandleLen}

Verdict(h) ==
    [twitter |-> isValidTwitterHandle(h), github |-> isValidGitHubHandle(h),
     facebook |-> isValidFacebookHandle(h),
     instagram |-> isValidInstagramHandle(h)]

Init ==
    /\ byName = [x \in {} |-> <<>>]
    /\ byId = [x \in {} |-> <<>>]
    /\ clock = 0
    /\ rnd = 0
    /\ nreq = 0
    /\ pc = [p \in Procs |-> "idle"]
    /\ req = [p \in Procs |-> NoReq]
    /\ page = [p \in Procs |-> Nil]
    /\ last = [n |-> 0, proc |-> "none", req |-> NoReq, resp |-> NoResp,
               page |-> Nil]
    /\ created = <<>>
    /\ handle = <<>>
    /\ verdict = Verdict(<<>>)
    /\ puts = <<>>
    /\ fetched = [p \in Procs |-> Nil]

\* The handler of goroutine p has written its response.
Reply(p, r, resp, pg) ==
    last' = [n |-> last.n + 1, proc |-> p, req |-> r, resp |-> resp, page |-> pg]

Accept(p) ==
    /\ pc[p] = "idle"
    /\ nreq < MaxRequests
    /\ nreq' = nreq + 1

Finish(p) ==
    /\ pc' = [pc EXCEPT ![p] = "idle"]
    /\ req' = [req EXCEPT ![p] = NoReq]
    /\ page' = [page EXCEPT ![p] = Nil]
    /\ fetched' = [fetched EXCEPT ![p] = Nil]

\* storePutPage has returned nil for the page of request r: the Put is on
\* record, in commit order.
Committed(r, pg) ==
    puts' = Append(puts, [op |-> r.op, name |-> IF r.op = "PUT" THEN pg.Name ELSE r.name,
                          id |-> IF r.op = "PUT" THEN pg.Id ELSE r.id,
                          form |-> r.form, page |-> pg])

\* apiPut, from the form values to the page it is about to store.
ApiPutBuild(p, f) ==
    /\ Accept(p)
    /\ LET r == Request("PUT", <<>>, <<>>, f)
           v == Validate(f)
           now == clock + 1
       IN  IF v.err # ""
           THEN /\ Reply(p, r, SendError(v.err), Nil)
                /\ UNCHANGED <<clock, rnd, pc, req, page>>
           ELSE /\ clock' = now
                /\ rnd' = rnd + 2
                /\ page' = [page EXCEPT ![p] =
                      NewPage(f, v, now, randStr(rnd, IdLen),
                              randStr(rnd + 1, SuffixLen))]
                /\ pc' = [pc EXCEPT ![p] = "put"]
                /\ req' = [req EXCEPT ![p] = r]
                /\ UNCHANGED last
    /\ UNCHANGED <<byName, byId, created, handle, verdict, puts, fetched>>

\* apiPut, storePutPage and the response.
ApiPutStore(p, fault) ==
    /\ pc[p] = "put"
    /\ LET errIns == storePutPage(byName, byId, page[p], fault)
       IN  /\ byName' = errIns.byName
           /\ byId' = errIns.byId
           /\ IF errIns.err
              THEN /\ Reply(p, req[p], HttpError, page[p])
                   /\ UNCHANGED <<created, puts>>
              ELSE /\ Reply(p, req[p], SendJson("Saved", SavedPayload(page[p])),
                            page[p])
                   /\ created' = Append(created, SavedPayload(page[p]))
                   /\ Committed(req[p], page[p])
    /\ Finish(p)
    /\ UNCHANGED <<clock, rnd, nreq, handle, verdict>>

\* Variant: the record is stored before the form is validated.
MutApiPostLoadSaveFirst(p, id, name, f) ==
    /\ Accept(p)
    /\ LET r == Request("POST", id, name, f)
           existing == storeGetPage(byName, name)
           err == apiPostError(existing, id, f)
           now == clock + 1
           permitted == existing.page # Nil /\ existing.page.Id = id
           errIns == storePutPage(byName, byId,
                        UpdatedPage(existing.page, f, Validate(f), now), FALSE)
       IN  IF err # ""
           THEN /\ Reply(p, r, SendError(err), Nil)
                /\ byName' = IF permitted THEN errIns.byName ELSE byName
                /\ byId' = IF permitted THEN errIns.byId ELSE byId
                /\ UNCHANGED <<clock, pc, req, page, fetched>>
           ELSE /\ clock' = now
                /\ fetched' = [fetched EXCEPT ![p] = existing.page]
                /\ page' = [page EXCEPT ![p] =
                      UpdatedPage(existing.page, f, Validate(f), now)]
                /\ pc' = [pc EXCEPT ![p] = "post"]
                /\ req' = [req EXCEPT ![p] = r]
                /\ UNCHANGED <<last, byName, byId>>
    /\ UNCHANGED <<rnd, created, handle, verdict, puts>>

\* apiPost, from the form values to the record it is about to store.
ApiPostLoad(p, id, name, f) ==
    /\ Accept(p)
    /\ LET r == Request("POST", id, name, f)
           existing == storeGetPage(byName, name)
           err == apiPostError(existing, id, f)
           now == clock + 1
       IN  IF err # ""
           THEN /\ Reply(p, r, SendError(err), Nil)
                /\ UNCHANGED <<clock, pc, req, page, fetched>>
           ELSE /\ clock' = now
                /\ fetched' = [fetched EXCEPT ![p] = existing.page]
                /\ page' = [page EXCEPT ![p] =
                      UpdatedPage(existing.page, f, Validate(f), now)]
                /\ pc' = [pc EXCEPT ![p] = "post"]
                /\ req' = [req EXCEPT ![p] = r]
                /\ UNCHANGED last
    /\ UNCHANGED <<byName, byId, rnd, created, handle, verdict, puts>>

\* Variant: the error of storePutPage is not looked at.
MutApiPostStoreIgnoreErr(p, fault) ==
    /\ pc[p] = "post"
    /\ LET errIns == storePutPage(byName, byId, page[p], fault)
       IN  /\ byName' = errIns.byName
           /\ byId' = errIns.byId
           /\ Reply(p, req[p], SendJson("Saved", SavedPayload(page[p])), page[p])
           /\ IF errIns.err THEN UNCHANGED puts ELSE Committed(req[p], page[p])
    /\ Finish(p)
    /\ UNCHANGED <<clock, rnd, nreq, created, handle, verdict>>

\* apiPost, storePutPage and the response.
ApiPostStore(p, fault) ==
    /\ pc[p] = "post"
    /\ LET errIns == storePutPage(byName, byId, page[p], fault)
       IN  /\ byName' = errIns.byName
           /\ byId' = errIns.byId
           /\ IF errIns.err
              THEN /\ Reply(p, req[p], HttpError, page[p])
                   /\ UNCHANGED puts
              ELSE /\ Reply(p, req[p], SendJson("Saved", SavedPayload(page[p])),
                            page[p])
                   /\ Committed(req[p], page[p])
    /\ Finish(p)
    /\ UNCHANGED <<clock, rnd, nreq, created, handle, verdict>>

\* Variant: the nil test of apiGet is inverted.
MutApiGetNilInverted(got) ==
    IF got.err THEN SendError("Internal Error. Please try again later.")
    ELSE IF got.page # Nil THEN SendError("This page Id does not exist.")
    ELSE SendJson("Saved", got.page)

\* The response of apiGet to what storeGetPageUsingId returned.
apiGetResponse(got) ==
    IF got.err THEN SendError("Internal Error. Please try again later.")
    ELSE IF got.page = Nil THEN SendError("This page Id does not exist.")
    ELSE SendJson("Saved", got.page)

ApiGet(p, id) ==
    /\ Accept(p)
    /\ LET got == storeGetPageUsingId(byName, byId, id)
       IN  Reply(p, Request("GET", id, <<>>, NoForm), apiGetResponse(got),
                 got.page)
    /\ UNCHANGED <<byName, byId, clock, rnd, pc, req, page, created, handle,
                   verdict, puts, fetched>>

\* The response of servePage to what storeGetPage returned.
servePageResponse(got) ==
    IF got.err THEN HttpError
    ELSE IF got.page = Nil THEN NotFound
    ELSE RenderPage(got.page)

ServePage(p, name) ==
    /\ Accept(p)
    /\ LET got == storeGetPage(byName, name)
       IN  Reply(p, Request("VIEW", <<>>, name, NoForm), servePageResponse(got),
                 got.page)
    /\ UNCHANGED <<byName, byId, clock, rnd, pc, req, page, created, handle,
                   verdict, puts, fetched>>

\* BASE_URL of the deployment.
baseUrl == "https://publish.li"

\* Variant: the line of the home page is written after the pages.
MutSitemapBaseLast(visited) ==
    [i \in 1..Len(visited) |-> <<baseUrl, "/", visited[i][1]>>]
    \o << <<baseUrl, "/">> >>

\* The lines sitemap writes: the base URL, then one line per visited key.
sitemapLines(visited) ==
    << <<baseUrl, "/">> >>
    \o [i \in 1..Len(visited) |-> <<baseUrl, "/", visited[i][1]>>]

Sitemap(p) ==
    /\ Accept(p)
    /\ Reply(p, Request("SITEMAP", <<>>, <<>>, NoForm),
             [kind |-> "text", ok |-> TRUE, msg |-> "sitemap.txt",
              payload |-> [lines |-> sitemapLines(storeIteratePages(byName))]],
             Nil)
    /\ UNCHANGED <<byName, byId, clock, rnd, pc, req, page, created, handle,
                   verdict, puts, fetched>>

\* What a client can send as an id or a name: one it was given, or a guess.
Ids == DOMAIN byId \cup {UnknownId}

Names == DOMAIN byName \cup {UnknownName}

Next ==
    \/ \E p \in Procs, f \in Forms : ApiPutBuild(p, f)
    \/ \E p \in Procs, fault \in BOOLEAN : ApiPutStore(p, fault)
    \/ \E p \in Procs, id \in Ids, name \in Names, f \in Forms :
          ApiPostLoad(p, id, name, f)
    \/ \E p \in Procs, fault \in BOOLEAN : ApiPostStore(p, fault)
    \/ \E p \in Procs, id \in Ids : ApiGet(p, id)
    \/ \E p \in Procs, name \in Names : ServePage(p, name)
    \/ \E p \in Procs : Sitemap(p)

Spec == Init /\ [][Next]_vars

\* ------------------------------------------------------- validators alone

Validate4(h) ==
    /\ handle' = h
    /\ verdict' = Verdict(h)
    /\ UNCHANGED <<byName, byId, clock, rnd, nreq, pc, req, page, last, created,
                   puts, fetched>>

NextHandles == \E h \in Handles : Validate4(h)

SpecHandles == Init /\ [][NextHandles]_vars

\* ----------------------------------------------------------- step notions

\* This step wrote a response: last' describes the request it ended.
Replied == last'.n = last.n + 1

\* This step accepted a request.
Accepted == nreq' = nreq + 1

\* The request accepted by this step (meaningful when Accepted).
AcceptedReq ==
    IF Replied THEN last'.req
    ELSE req'[CHOOSE q \in Procs : pc'[q] # pc[q]]

\* The in-flight page after this step of the goroutine that accepted a
\* request and went on to the store (meaningful when Accepted /\ ~Replied).
AcceptedPage == page'[CHOOSE q \in Procs : pc'[q] # pc[q]]

StoreUnchanged == byName' = byName /\ byId' = byId

\* What View and Lookup hand back.
View(bn, name) == servePageResponse(storeGetPage(bn, name))

Lookup(bn, bi, id) == apiGetResponse(storeGetPageUsingId(bn, bi, id))

\* The alphabets of the handle validators as documented: letters, digits
\* and the one extra symbol.
InAlphabet(h, extra) ==
    \A i \in 1..Len(h) : ToLowerChar(h[i]) \in Letters \cup Digits \cup extra

\* The checks of a form as documented, in the order title, website,
\* twitter, github, facebook, instagram: whether the field is invalid, and
\* the error of the field.
DocumentedChecks(f) ==
    << [bad |-> Slugify(f.title) = <<>>, msg |-> "Provide a title"],
       [bad |-> f.website # "" /\ ~ParseRequestURI(f.website).ok,
        msg |-> "Invalid website URL"],
       [bad |-> ~InAlphabet(f.twitter, {"_"}),
        msg |-> "Invalid Twitter Handle. Only letters, numbers, and underscore allowed."],
       [bad |-> ~InAlphabet(f.github, {"-"}),
        msg |-> "Invalid GitHub Handle. Only letters, numbers, and dash allowed."],
       [bad |-> ~InAlphabet(f.facebook, {"."}),
        msg |-> "Invalid Facebook Handle. Only letters, numbers, and dot allowed."],
       [bad |-> ~InAlphabet(f.instagram, {}),
        msg |-> "Invalid Instagram Handle. Only letters and numbers allowed."] >>

InvalidFields(f) == {i \in 1..6 : DocumentedChecks(f)[i].bad}

FirstInvalid(f) == CHOOSE i \in InvalidFields(f) : \A j \in InvalidFields(f) : i <= j

\* ------------------------------------------------------------------ claims

\* C1: an Update whose id differs from the id stored under its (existing)
\* name is answered "Permission denied." in the step that accepts it, and
\* that step leaves both buckets as they were.
C1_WrongIdDenied ==
    [][ (/\ Accepted
         /\ AcceptedReq.op = "POST"
         /\ AcceptedReq.name \in DOMAIN byName
         /\ Deserialize(byName[AcceptedReq.name]).Id # AcceptedReq.id)
        => (/\ Replied
            /\ last'.resp = SendError("Permission denied.")
            /\ StoreUnchanged) ]_vars

\* C1 witness: an Update of a stored page with the id of another stored page
\* was denied.
C1_Witness ==
    /\ last.req.op = "POST"
    /\ last.resp = SendError("Permission denied.")
    /\ last.req.name \in DOMAIN byName
    /\ last.req.id \in DOMAIN byId
    /\ Deserialize(byName[last.req.name]).Id # last.req.id

\* C2: a successful Update keeps id, name and created_at and stamps an
\* updated_at later than the one of the record it loaded: the record the
\* Update builds from the one it loaded has these properties, and the record
\* stored by its Put is that record, with the id, name and created_at of the
\* record stored before the Put.
C2_UpdateFrame ==
    [][ /\ (Accepted /\ ~Replied /\ AcceptedReq.op = "POST")
           => LET loaded == Deserialize(byName[AcceptedReq.name])
              IN  /\ AcceptedPage.Id = loaded.Id
                  /\ AcceptedPage.Name = loaded.Name
                  /\ AcceptedPage.Inserted = loaded.Inserted
                  /\ AcceptedPage.Updated > loaded.Updated
        /\ (Replied /\ last'.req.op = "POST" /\ last'.resp.ok)
           => LET before == Deserialize(byName[last'.req.name])
                  after == Deserialize(byName'[last'.req.name])
              IN  /\ after = page[last'.proc]
                  /\ after.Id = before.Id
                  /\ after.Id = last'.req.id
                  /\ after.Name = before.Name
                  /\ after.Name = last'.req.name
                  /\ after.Inserted = before.Inserted ]_vars

\* C2 witness: an Update succeeded and the stored record is later than its
\* creation.
C2_Witness ==
    /\ last.req.op = "POST"
    /\ last.resp.ok
    /\ last.req.name \in DOMAIN byName
    /\ Deserialize(byName[last.req.name]).Id = last.req.id
    /\ Deserialize(byName[last.req.name]).Updated
         > Deserialize(byName[last.req.name]).Inserted

\* C3: a Create with a form that passes validation, whose Put commits, is
\* answered with a non-empty name, and a View of that name in the state the
\* Put leaves renders exactly the page the Create built.
C3_CreateThenView ==
    [][ (/\ Replied
         /\ last'.req.op = "PUT"
         /\ Validate(last'.req.form).err = ""
         /\ last'.resp.kind # "500")
        => (/\ last'.resp.ok
            /\ last'.resp.payload.name # <<>>
            /\ last'.page = page[last'.proc]
            /\ View(byName', last'.resp.payload.name) = RenderPage(page[last'.proc])) ]_vars

\* C3 witness: a Create succeeded and its page is the one stored under the
\* name it returned.
C3_Witness ==
    /\ last.req.op = "PUT"
    /\ last.resp.ok
    /\ last.resp.payload.name # <<>>
    /\ View(byName, last.resp.payload.name) = RenderPage(last.page)

\* C3 as stated: a Create with a form in which every field is valid as
\* documented (handles of letters, digits and the one extra symbol), whose
\* Put does not fail, is answered with a non-empty name, and a View of that
\* name renders exactly the page the Create built.
C3_AsStated ==
    [][ (/\ Replied
         /\ last'.req.op = "PUT"
         /\ InvalidFields(last'.req.form) = {}
         /\ last'.resp.kind # "500")
        => (/\ last'.resp.ok
            /\ last'.resp.payload.name # <<>>
            /\ last'.page = page[last'.proc]
            /\ View(byName', last'.resp.payload.name) = RenderPage(page[last'.proc])) ]_vars

\* C4: for every page a Create has stored, Lookup by its id and View by its
\* name hand back the same record, whatever Creates and Updates followed.
C4_LookupIsView ==
    \A i \in 1..Len(created) :
        LET l == Lookup(byName, byId, created[i].id)
            v == View(byName, created[i].name)
        IN  /\ l.ok
            /\ v.ok
            /\ l.payload = v.payload
            /\ l.payload.Id = created[i].id
            /\ l.payload.Name = created[i].name

\* C4 witness: a Lookup answered with an updated page, which is the page its
\* name views.
C4_Witness ==
    /\ last.req.op = "GET"
    /\ last.resp.ok
    /\ last.resp.payload.Updated > last.resp.payload.Inserted
    /\ Len(created) > 0
    /\ View(byName, last.resp.payload.Name).payload = last.resp.payload

\* C5: in every state, also while Puts of other requests are pending, the
\* by-id bucket maps id to name exactly when the by-name bucket holds under
\* that name a record with that id; no by-id pointer leads to a missing
\* record.
C5_IndexesAgree ==
    LET ids == DOMAIN byId \cup {Deserialize(byName[n]).Id : n \in DOMAIN byName}
        names == DOMAIN byName \cup {byId[i] : i \in DOMAIN byId}
    IN  /\ \A i \in ids, n \in names :
              (i \in DOMAIN byId /\ byId[i] = n)
              <=> (n \in DOMAIN byName /\ Deserialize(byName[n]).Id = i)
        /\ \A i \in DOMAIN byId : ~storeGetPageUsingId(byName, byId, i).err

\* C5 witness: two pages are stored and a request is between building its
\* record and its Put.
C5_Witness ==
    /\ Cardinality(DOMAIN byId) = 2
    /\ Cardinality(DOMAIN byName) = 2
    /\ \E p \in Procs : pc[p] # "idle"
    /\ \A i \in DOMAIN byId : Deserialize(byName[byId[i]]).Id = i

\* C6: an Update or a View of a name without a record is answered not-found
\* ("This page name does not exist." / 404) in the step that accepts it,
\* never with a storage fault, and that step changes neither bucket.
C6_MissingNameNotFound ==
    [][ (/\ Accepted
         /\ AcceptedReq.op \in {"POST", "VIEW"}
         /\ AcceptedReq.name \notin DOMAIN byName)
        => (/\ Replied
            /\ AcceptedReq.op = "POST"
                 => last'.resp = SendError("This page name does not exist.")
            /\ AcceptedReq.op = "VIEW" => last'.resp = NotFound
            /\ StoreUnchanged) ]_vars

\* C6 witness: an Update of a missing name, with a form that would not pass
\* validation either, was answered not-found while pages are stored.
C6_Witness ==
    /\ last.req.op = "POST"
    /\ last.req.name \notin DOMAIN byName
    /\ DOMAIN byName # {}
    /\ Validate(last.req.form).err # ""
    /\ last.resp = SendError("This page name does not exist.")

\* C7 as stated: every Create and every Update whose title slugifies to the
\* empty string is answered "Provide a title", whatever its id and name, and
\* writes nothing.
C7_AsStated ==
    [][ (/\ Accepted
         /\ AcceptedReq.op \in {"PUT", "POST"}
         /\ Slugify(AcceptedReq.form.title) = <<>>)
        => (/\ Replied
            /\ last'.resp = SendError("Provide a title")
            /\ StoreUnchanged) ]_vars

\* C7: every Create, and every Update of an existing name with the id stored
\* under it, whose title slugifies to the empty string is answered "Provide
\* a title"; an Update of a missing name or with another id is answered
\* not-found or permission-denied instead; none of them writes.
C7_EmptyTitleRejected ==
    [][ (/\ Accepted
         /\ AcceptedReq.op \in {"PUT", "POST"}
         /\ Slugify(AcceptedReq.form.title) = <<>>)
        => (/\ Replied
            /\ StoreUnchanged
            /\ last'.resp =
                 IF AcceptedReq.op = "PUT" THEN SendError("Provide a title")
                 ELSE IF AcceptedReq.name \notin DOMAIN byName
                 THEN SendError("This page name does not exist.")
                 ELSE IF Deserialize(byName[AcceptedReq.name]).Id # AcceptedReq.id
                 THEN SendError("Permission denied.")
                 ELSE SendError("Provide a title")) ]_vars

\* C7 witness: an Update of a stored page with its id and a title of
\* punctuation only was answered "Provide a title".
C7_Witness ==
    /\ last.req.op = "POST"
    /\ last.req.form.title # <<>>
    /\ Slugify(last.req.form.title) = <<>>
    /\ last.req.name \in DOMAIN byName
    /\ Deserialize(byName[last.req.name]).Id = last.req.id
    /\ last.resp = SendError("Provide a title")

ValidationErrors ==
    {"Provide a title", "Invalid website URL",
     "Invalid Twitter Handle. Only letters, numbers, and underscore allowed.",
     "Invalid GitHub Handle. Only letters, numbers, and dash allowed.",
     "Invalid Facebook Handle. Only letters, numbers, and dot allowed.",
     "Invalid Instagram Handle. Only letters and numbers allowed."}

\* C8: a step that answers a Create or an Update with a validation error or
\* with "Permission denied." leaves both buckets as they were, and that
\* request had no earlier step in which it could have written.
C8_RejectedWritesNothing ==
    [][ (/\ Replied
         /\ last'.req.op \in {"PUT", "POST"}
         /\ last'.resp.kind = "json"
         /\ last'.resp.msg \in ValidationErrors \cup {"Permission denied."})
        => (/\ StoreUnchanged
            /\ Accepted
            /\ pc[last'.proc] = "idle") ]_vars

\* C8 witness: an Update of a stored page with its own id was rejected for
\* a field other than the title.
C8_Witness ==
    /\ last.req.op = "POST"
    /\ last.resp.msg \in ValidationErrors \ {"Provide a title"}
    /\ last.req.name \in DOMAIN byName
    /\ Deserialize(byName[last.req.name]).Id = last.req.id

\* C9: each validator accepts a handle exactly when every character of the
\* lower-cased handle is a letter, a digit or the validator's extra symbol.
C9_HandleAlphabets ==
    /\ verdict.twitter = InAlphabet(handle, {"_"})
    /\ verdict.github = InAlphabet(handle, {"-"})
    /\ verdict.facebook = InAlphabet(handle, {"."})
    /\ verdict.instagram = InAlphabet(handle, {})

StoredIds == {Deserialize(byName[n]).Id : n \in DOMAIN byName}

\* The store holds exactly the pages of the successful Creates, each under
\* its own name and id.
OnePagePerCreate ==
    /\ Cardinality(DOMAIN byName) = Len(created)
    /\ Cardinality(DOMAIN byId) = Len(created)
    /\ Cardinality(StoredIds) = Len(created)
    /\ \A i \in 1..Len(created) :
          /\ created[i].name \in DOMAIN byName
          /\ Deserialize(byName[created[i].name]).Id = created[i].id
          /\ created[i].id \in DOMAIN byId
          /\ byId[created[i].id] = created[i].name

\* C10: with a token generator that never repeats, every successful Create,
\* in any interleaving, adds one page and overwrites none: names and ids
\* stay pairwise distinct, the store holds as many pages as Creates have
\* succeeded, and the Put of a Create leaves every earlier record and
\* pointer as it was.
C10_CreatesNeverCollide ==
    [][ /\ OnePagePerCreate'
        /\ (Replied /\ last'.req.op = "PUT" /\ last'.resp.ok)
           => /\ \A n \in DOMAIN byName :
                    n \in DOMAIN byName' /\ byName'[n] = byName[n]
              /\ \A i \in DOMAIN byId :
                    i \in DOMAIN byId' /\ byId'[i] = byId[i]
              /\ last'.resp.payload.name \notin DOMAIN byName
              /\ last'.resp.payload.id \notin DOMAIN byId ]_vars

\* C10 witness: two Creates with the same title have both succeeded, the
\* second while the first was between building its page and its Put, and
\* both pages are stored.
C10_Witness ==
    /\ Len(created) = 2
    /\ Cardinality(DOMAIN byName) = 2
    /\ \A n \in DOMAIN byName : Deserialize(byName[n]).Title = FormA.title
    /\ Deserialize(byName[created[1].name]).Inserted
         > Deserialize(byName[created[2].name]).Inserted

\* C11: in every state, the markup of every stored record is the rendering
\* of the content stored in that same record, whatever Creates and Updates
\* have committed and in whatever order.
C11_MarkupOfContent ==
    \A n \in DOMAIN byName :
        Deserialize(byName[n]).Html = MarkdownCommon(Deserialize(byName[n]).Content)

\* C11 witness: an Update has replaced the content of a page created from a
\* form with another title and content, and the stored markup is the
\* rendering of the new content.
C11_Witness ==
    /\ last.req.op = "POST"
    /\ last.resp.ok
    /\ last.req.name \in DOMAIN byName
    /\ LET pg == Deserialize(byName[last.req.name])
       IN  /\ pg.Content = last.req.form.content
           /\ pg.Html = MarkdownCommon(last.req.form.content)
           /\ SubSeq(pg.Name, 1, Len(pg.Name) - SuffixLen - 1) # Slugify(pg.Title)

\* C12: a sitemap over a store of N created pages writes the base URL line
\* and then N lines, one for every stored name and none twice, in strictly
\* ascending order of name.
C12_SitemapAscending ==
    [][ (Replied /\ last'.req.op = "SITEMAP")
        => LET lines == last'.resp.payload.lines
               N == Cardinality(DOMAIN byName)
           IN  /\ N = Len(created)
               /\ Len(lines) = N + 1
               /\ lines[1] = <<baseUrl, "/">>
               /\ \A i \in 2..(N + 1) :
                     /\ lines[i][1] = baseUrl
                     /\ lines[i][2] = "/"
                     /\ lines[i][3] \in DOMAIN byName
               /\ \A i, j \in 2..(N + 1) :
                     i < j => KeyLess(lines[i][3], lines[j][3])
               /\ {lines[i][3] : i \in 2..(N + 1)} = DOMAIN byName ]_vars

\* C12 witness: a sitemap listed two pages, the page created later first.
C12_Witness ==
    /\ last.req.op = "SITEMAP"
    /\ Len(last.resp.payload.lines) = 3
    /\ Cardinality(DOMAIN byName) = 2
    /\ Deserialize(byName[last.resp.payload.lines[2][3]]).Inserted
         > Deserialize(byName[last.resp.payload.lines[3][3]]).Inserted

\* C13: from the state in which a Put has returned success on, a View of
\* the page's name and a Lookup of its id answer with the record of that
\* Put or of a Put of the page committed after it: never not-found, never
\* an error, never a record committed before it.
C13_ReadsSeeCommitted ==
    \A i \in 1..Len(puts) :
        LET v == View(byName, puts[i].name)
            l == Lookup(byName, byId, puts[i].id)
        IN  /\ v.kind = "html"
            /\ l.ok
            /\ \E j \in i..Len(puts) :
                  puts[j].name = puts[i].name /\ v.payload = puts[j].page
            /\ \E j \in i..Len(puts) :
                  puts[j].id = puts[i].id /\ l.payload = puts[j].page
            /\ \A k \in 1..(i - 1) :
                  v.payload # puts[k].page /\ l.payload # puts[k].page

\* C13 witness: a View answered, after a Create and an Update of the page
\* had committed, with the record of the Update.
C13_Witness ==
    /\ last.req.op = "VIEW"
    /\ Len(puts) = 2
    /\ puts[1].name = last.req.name
    /\ puts[2].name = last.req.name
    /\ puts[2].op = "POST"
    /\ last.resp = RenderPage(puts[2].page)

\* C14: when storePutPage returns an error to a Create or an Update, the
\* request is answered with an error and both buckets are as before: the
\* indexes still agree and the record an Update was to replace is still the
\* stored one.
C14_FailedPutChangesNothing ==
    [][ (/\ Replied
         /\ ~Accepted
         /\ last'.req.op \in {"PUT", "POST"}
         /\ puts' = puts)
        => (/\ last'.resp = HttpError
            /\ ~last'.resp.ok
            /\ StoreUnchanged
            /\ C5_IndexesAgree'
            /\ page[last'.proc].Name \in DOMAIN byName'
                 => Deserialize(byName'[page[last'.proc].Name]) # page[last'.proc]
            /\ last'.req.op = "POST"
                 => /\ last'.req.name \in DOMAIN byName'
                    /\ byName'[last'.req.name] = byName[last'.req.name]) ]_vars

\* C14 witness: the Put of an Update failed; the request was answered with
\* the error and the page created before is still the stored record.
C14_Witness ==
    /\ last.req.op = "POST"
    /\ last.resp = HttpError
    /\ Len(puts) = 1
    /\ last.req.name \in DOMAIN byName
    /\ Deserialize(byName[last.req.name]) = puts[1].page
    /\ Deserialize(byName[last.req.name]) # last.page

\* The fields of a form in the order title, website, twitter, github,
\* facebook, instagram: whether the field fails its check, and the error of
\* the field.
FieldChecks(f) ==
    << [bad |-> Slugify(f.title) = <<>>, msg |-> "Provide a title"],
       [bad |-> f.website # "" /\ ~ParseRequestURI(f.website).ok,
        msg |-> "Invalid website URL"],
       [bad |-> f.twitter # <<>> /\ ~isValidTwitterHandle(f.twitter),
        msg |-> "Invalid Twitter Handle. Only letters, numbers, and underscore allowed."],
       [bad |-> f.github # <<>> /\ ~isValidGitHubHandle(f.github),
        msg |-> "Invalid GitHub Handle. Only letters, numbers, and dash allowed."],
       [bad |-> f.facebook # <<>> /\ ~isValidFacebookHandle(f.facebook),
        msg |-> "Invalid Facebook Handle. Only letters, numbers, and dot allowed."],
       [bad |-> f.instagram # <<>> /\ ~isValidInstagramHandle(f.instagram),
        msg |-> "Invalid Instagram Handle. Only letters and numbers allowed."] >>

BadFields(f) == {i \in 1..6 : FieldChecks(f)[i].bad}

FirstBad(f) == CHOOSE i \in BadFields(f) : \A j \in BadFields(f) : i <= j

\* C15: a Create, or an Update that passes the existence and permission
\* checks, with one or several fields failing their checks is answered with
\* the one error of the first failing field in the order title, website,
\* twitter, github, facebook, instagram.
C15_FirstInvalidField ==
    [][ (/\ Accepted
         /\ AcceptedReq.op \in {"PUT", "POST"}
         /\ AcceptedReq.op = "POST"
              => /\ AcceptedReq.name \in DOMAIN byName
                 /\ Deserialize(byName[AcceptedReq.name]).Id = AcceptedReq.id
         /\ BadFields(AcceptedReq.form) # {})
        => (/\ Replied
            /\ last'.resp =
                 SendError(FieldChecks(AcceptedReq.form)[FirstBad(AcceptedReq.form)].msg)) ]_vars

\* C15 witness: an Update of a stored page with its id, a malformed website
\* and a malformed github handle was answered "Invalid website URL".
C15_Witness ==
    /\ last.req.op = "POST"
    /\ last.req.name \in DOMAIN byName
    /\ Deserialize(byName[last.req.name]).Id = last.req.id
    /\ BadFields(last.req.form) = {2, 4}
    /\ last.resp = SendError("Invalid website URL")

\* C15 as stated: a Create, or an Update that passes the existence and
\* permission checks, with one or several fields invalid as documented is
\* answered with the one error of the first invalid field in the order
\* title, website, twitter, github, facebook, instagram.
C15_AsStated ==
    [][ (/\ Accepted
         /\ AcceptedReq.op \in {"PUT", "POST"}
         /\ AcceptedReq.op = "POST"
              => /\ AcceptedReq.name \in DOMAIN byName
                 /\ Deserialize(byName[AcceptedReq.name]).Id = AcceptedReq.id
         /\ InvalidFields(AcceptedReq.form) # {})
        => (/\ Replied
            /\ last'.resp =
                 SendError(DocumentedChecks(AcceptedReq.form)[FirstInvalid(AcceptedReq.form)].msg)) ]_vars

\* C16 as stated: from one state of the store to the next, the updated_at
\* of a stored record never decreases.
C16_AsStated ==
    [][ \A n \in DOMAIN byName :
           Deserialize(byName'[n]).Updated >= Deserialize(byName[n]).Updated ]_vars

\* C16: the record an Update commits carries an updated_at later than the
\* one of the record that Update read, and later than created_at; so the
\* stored updated_at grows across the commit of an Update that read the
\* record it replaces (it can decrease only when another Update committed
\* between the read and the Put), and no other step changes a stored
\* record.
C16_UpdatedAfterRead ==
    [][ /\ (Replied /\ ~Accepted /\ last'.req.op = "POST" /\ last'.resp.ok)
           => LET before == Deserialize(byName[last'.req.name])
                  after == Deserialize(byName'[last'.req.name])
                  read == fetched[last'.proc]
              IN  /\ after.Updated > read.Updated
                  /\ after.Updated > after.Inserted
                  /\ before = read => after.Updated > before.Updated
                  /\ after.Updated < before.Updated
                       => \E i \in 1..Len(puts) :
                             /\ puts[i].op = "POST"
                             /\ puts[i].page = before
                             /\ puts[i].page.Updated > read.Updated
        /\ ~(Replied /\ ~Accepted /\ last'.req.op = "POST" /\ last'.resp.ok)
           => \A n \in DOMAIN byName :
                 n \in DOMAIN byName' /\ byName'[n] = byName[n] ]_vars

\* C16 witness: two Updates of one page raced and committed in the reverse
\* order of their clock values; the stored record is the one committed last.
C16_Witness ==
    /\ Len(puts) = 3
    /\ puts[2].op = "POST"
    /\ puts[3].op = "POST"
    /\ puts[2].name = puts[3].name
    /\ puts[3].page.Updated < puts[2].page.Updated
    /\ Deserialize(byName[puts[3].name]) = puts[3].page
    /\ puts[3].page.Updated > puts[1].page.Updated

\* The page of a committed Put holds the values of its own request in every
\* field a request sets.
FromOneRequest(e) ==
    /\ e.page.Title = e.form.title
    /\ e.page.Content = e.form.content
    /\ e.page.Author = e.form.author
    /\ e.page.Website = IF e.form.website = "" THEN ""
                        ELSE ParseRequestURI(e.form.website).str
    /\ e.page.Twitter = e.form.twitter
    /\ e.page.GitHub = e.form.github
    /\ e.page.Facebook = e.form.facebook
    /\ e.page.Instagram = e.form.instagram
    /\ e.page.Html = MarkdownCommon(e.form.content)

\* C17: every record ever committed, and so every stored record, is the
\* whole result of one request: all its content and profile fields and its
\* markup are those of that request, its updated_at is the clock value of
\* that request alone, and its id, name and created_at are those its Create
\* set.
C17_WholeRecords ==
    /\ \A i \in 1..Len(puts) :
          /\ FromOneRequest(puts[i])
          /\ \A j \in 1..Len(puts) :
                j # i => puts[j].page.Updated # puts[i].page.Updated
          /\ \E k \in 1..i :
                /\ puts[k].op = "PUT"
                /\ puts[k].page.Name = puts[i].name
                /\ puts[i].page.Id = puts[k].page.Id
                /\ puts[i].page.Name = puts[k].page.Name
                /\ puts[i].page.Inserted = puts[k].page.Inserted
                /\ puts[k].page.Inserted = puts[k].page.Updated
    /\ \A n \in DOMAIN byName :
          \E i \in 1..Len(puts) :
              puts[i].name = n /\ Deserialize(byName[n]) = puts[i].page

\* C17 witness: two Updates with different forms raced on one page; the
\* stored record is in every field the one of the Update that committed
\* last.
C17_Witness ==
    /\ Len(puts) = 3
    /\ puts[2].op = "POST"
    /\ puts[3].op = "POST"
    /\ puts[2].name = puts[3].name
    /\ puts[2].form # puts[3].form
    /\ puts[3].page.Updated < puts[2].page.Updated
    /\ Deserialize(byName[puts[3].name]) = puts[3].page
    /\ FromOneRequest(puts[3])

====
